---------------------------- MODULE Spec2Model ----------------------------
(***************************************************************************)
(* A model of doc/conf.py, the Sphinx configuration of weldx.  The file is *)
(* executed once, top to bottom: import workarounds, the import of weldx   *)
(* (with its fallback), the staging of the tutorial files, the             *)
(* configuration values, the parse of the nitpick_ignore file and the      *)
(* assignment of default_role.                                             *)
(*                                                                         *)
(* Text is modelled as sequences of one-character strings, so that the     *)
(* string methods of the code (strip, startswith, split) are computed and  *)
(* not assumed.                                                            *)
(***************************************************************************)
EXTENDS Naturals, Sequences, FiniteSets

---------------------------------------------------------------------------
(* Bounds of the model. *)

\* Longest nitpick_ignore file, in characters, under SpecParse.
MaxFileLen == 8
\* How many times the staging of the tutorial files is run under SpecStage.
MaxRuns == 2

---------------------------------------------------------------------------
(* Characters and the string methods of Python used by the code. *)

SP == " "
NL == "\n"
HASH == "#"
\* The characters a nitpick_ignore file is made of in the model.
Alphabet == {"a", HASH, SP, NL}

\* str.isspace on one character.
IsSpace(c) == c \in {SP, NL, "\t"}

\* s[i:] of Python, with i counted from 1.
Drop(s, i) == SubSeq(s, i, Len(s))

\* The index of the first character of s at or after i that is no
\* whitespace (Len(s) + 1 when there is none).
RECURSIVE SkipSpace(_, _)
SkipSpace(s, i) ==
    IF i <= Len(s) /\ IsSpace(s[i]) THEN SkipSpace(s, i + 1) ELSE i

\* The index of the first whitespace character of s at or after i
\* (Len(s) + 1 when there is none).
RECURSIVE SkipToken(_, _)
SkipToken(s, i) ==
    IF i <= Len(s) /\ ~IsSpace(s[i]) THEN SkipToken(s, i + 1) ELSE i

\* The index of the last character of s at or before i that is no
\* whitespace (0 when there is none).
RECURSIVE SkipSpaceBack(_, _)
SkipSpaceBack(s, i) ==
    IF i >= 1 /\ IsSpace(s[i]) THEN SkipSpaceBack(s, i - 1) ELSE i

\* str.strip(): s without its leading and trailing whitespace.
Strip(s) ==
    LET b == SkipSpace(s, 1)
        e == SkipSpaceBack(s, Len(s))
    IN  IF b > e THEN << >> ELSE SubSeq(s, b, e)

\* str.startswith(p).
StartsWith(s, p) == Len(s) >= Len(p) /\ SubSeq(s, 1, Len(p)) = p

\* str.partition in place of str.split: always two fields, the second
\* empty when the line has no separator.  A plausible slip.
Split1_partition(s) ==
    LET b == SkipSpace(s, 1)
        e == SkipToken(s, b)
        r == SkipSpace(s, e)
    IN  << SubSeq(s, b, e - 1), Drop(s, r) >>

\* str.split(None): every field.  A plausible slip.
RECURSIVE SplitAll(_)
SplitAll(s) ==
    LET b == SkipSpace(s, 1)
        e == SkipToken(s, b)
    IN  IF b > Len(s) THEN << >>
        ELSE << SubSeq(s, b, e - 1) >> \o SplitAll(Drop(s, e))

\* str.split(None, 1): the list of at most two fields.  Leading whitespace
\* is skipped, the first field runs to the next whitespace, the whitespace
\* after it is skipped, and what is left, if anything, is the second field,
\* trailing whitespace included.
Split1(s) ==
    LET b == SkipSpace(s, 1)
        e == SkipToken(s, b)
        r == SkipSpace(s, e)
    IN  IF b > Len(s) THEN << >>
        ELSE IF r > Len(s) THEN << SubSeq(s, b, e - 1) >>
        ELSE << SubSeq(s, b, e - 1), Drop(s, r) >>

\* Iterating over a text file: the lines of the text, each with its
\* terminating newline (the last line may have none).
RECURSIVE ReadLines(_)
ReadLines(text) ==
    IF text = << >> THEN << >>
    ELSE LET nl == CHOOSE i \in 1..(Len(text) + 1) :
                     /\ i = Len(text) + 1 \/ text[i] = NL
                     /\ \A j \in 1..(i - 1) : text[j] # NL
             e  == IF nl > Len(text) THEN Len(text) ELSE nl
         IN  << SubSeq(text, 1, e) >> \o ReadLines(Drop(text, e + 1))

\* All texts over Alphabet of at most n characters.
TextsUpTo(n) == UNION { [1..k -> Alphabet] : k \in 0..n }

---------------------------------------------------------------------------
(* The environment of the load: packages, directories, the ignore file. *)

\* A file that does not exist.
Absent == "absent"

\* The groups of packages the file imports besides weldx: the Sphinx
\* builders, the packages of the type annotations, weldx.visualization and
\* the packages whose version is read for the intersphinx mapping.
Packages == {"sphinx", "typing_deps", "weldx.visualization", "version_deps"}

\* The entries of sys.path: the installed packages and the parent directory.
SitePackages == "site-packages"
ParentDir == "../"
Locations == {SitePackages, ParentDir}

\* What a location holds of weldx: nothing, a package that imports, a
\* package one of whose own imports is missing, a package whose import
\* raises another error.
WeldxStates == {Absent, "ok", "missing_dep", "broken"}

\* File names as characters.
Name_a_ipynb == <<"a", ".", "i", "p", "y", "n", "b">>
Name_b_py    == <<"b", ".", "p", "y">>
Name_c_txt   == <<"c", ".", "t", "x", "t">>
Name_d_pyc   == <<"d", ".", "p", "y", "c">>
FileNames == {Name_a_ipynb, Name_b_py, Name_c_txt, Name_d_pyc}

\* Contents of the tutorial files of the source directory, and of a file
\* left in the destination by an earlier build.
SrcContents == {"v1", "v2"}
OldContent == "old"

\* A directory: what each name holds.
SrcDirs == [FileNames -> SrcContents \cup {Absent}]
DstDirs == [FileNames -> {OldContent, Absent}]

\* The texts of the ignore file of the whole load under SpecLoad: empty,
\* one rule, a comment with a rule and a blank line, a malformed line.
LoadFiles ==
    { << >>,
      <<"a", SP, "a", NL>>,
      <<HASH, "a", NL, "a", SP, "a", NL, NL>>,
      <<"a", SP, "a", NL, "a", NL>> }

VARIABLES
    pc,             \* the statement the load is at
    err,            \* the exception that ended the load, or "none"
    raised,         \* history: every exception raised, with its statement
    log,            \* history: the steps in the order they were started
    importable,     \* environment: the packages that can be imported
    weldx_at,       \* environment: what each location holds of weldx
    sys_path,       \* sys.path
    type_checking,  \* typing.TYPE_CHECKING
    src_dir,        \* ./../tutorials/
    dst_dir,        \* tutorials_dir
    unreadable,     \* environment: source files whose copy raises OSError
    tutorial_files, \* the files of the list not copied yet
    runs,           \* how many times _copy_tut_files was started
    src0,           \* history: src_dir at the start
    dst0,           \* history: dst_dir at the start
    dst_prev,       \* history: dst_dir when the previous staging had ended
    config,         \* the module-level names assigned so far
    file_exists,    \* environment: whether the file nitpick_ignore exists
    file,           \* environment: the text of the file nitpick_ignore
    fh,             \* the file handle: "none", "open" or "closed"
    lines,          \* the lines the iteration over fh yields
    pos,            \* how many of them the loop has taken
    nitpick_ignore  \* the list of pairs

envVars   == <<importable, weldx_at, unreadable, file_exists, file, src0, dst0>>
importVars == <<sys_path, type_checking>>
stageVars == <<src_dir, dst_dir, tutorial_files, runs, dst_prev>>
parseVars == <<fh, lines, pos, nitpick_ignore>>
vars == <<pc, err, raised, log, envVars, importVars, stageVars, parseVars,
          config>>

\* An uncaught exception exc raised by the statement at: it ends the load.
Fail(at, exc) ==
    /\ pc' = "failed"
    /\ err' = exc
    /\ raised' = Append(raised, [at |-> at, exc |-> exc])

\* The statement at ran and the load goes on at next.
Goto(next) ==
    /\ pc' = next
    /\ UNCHANGED <<err, raised>>


---------------------------------------------------------------------------
(* The imports: lines 28 to 65. *)

\* import weldx with the search path path: the outcome at the first
\* location of the path that holds weldx, a ModuleNotFoundError when none
\* does or when that package misses one of its own imports.
RECURSIVE ImportWeldxFrom(_)
ImportWeldxFrom(path) ==
    IF path = << >> THEN "ModuleNotFoundError"
    ELSE CASE weldx_at[Head(path)] = Absent -> ImportWeldxFrom(Tail(path))
           [] weldx_at[Head(path)] = "ok" -> "ok"
           [] weldx_at[Head(path)] = "missing_dep" -> "ModuleNotFoundError"
           [] OTHER -> "ImportError"

\* Line 54 with the call of line 55 left out: a plausible slip.
PreventSphinxCircularImportsBug_only ==
    /\ pc = "prevent_circular_imports"
    /\ log' = Append(log, "prevent_circular_imports")
    /\ IF "sphinx" \in importable
         THEN Goto("import_weldx")
         ELSE Fail("prevent_circular_imports", "ModuleNotFoundError")
    /\ UNCHANGED <<envVars, importVars, stageVars, parseVars, config>>

\* _prevent_sphinx_circular_imports_bug(), line 54.
PreventSphinxCircularImportsBug ==
    /\ pc = "prevent_circular_imports"
    /\ log' = Append(log, "prevent_circular_imports")
    /\ IF "sphinx" \in importable
         THEN Goto("workaround_imports")
         ELSE Fail("prevent_circular_imports", "ModuleNotFoundError")
    /\ UNCHANGED <<envVars, importVars, stageVars, parseVars, config>>

\* _workaround_imports_typechecking(), line 55.
WorkaroundImportsTypechecking ==
    /\ pc = "workaround_imports"
    /\ log' = Append(log, "workaround_imports")
    /\ IF "typing_deps" \in importable
         THEN Goto("import_weldx")
         ELSE Fail("workaround_imports", "ModuleNotFoundError")
    /\ UNCHANGED <<envVars, importVars, stageVars, parseVars, config>>

\* typing.TYPE_CHECKING = True and the try of import weldx, lines 57 to 60:
\* a ModuleNotFoundError is caught and the load goes on in the except
\* clause; any other exception leaves the file.
ImportWeldx ==
    /\ pc = "import_weldx"
    /\ log' = Append(log, "import_weldx")
    /\ type_checking' = TRUE
    /\ LET outcome == ImportWeldxFrom(sys_path)
       IN  CASE outcome = "ok" -> Goto("import_visualization")
             [] outcome = "ModuleNotFoundError" ->
                  /\ pc' = "import_weldx_fallback"
                  /\ raised' = Append(raised, [at |-> "import_weldx",
                                               exc |-> outcome])
                  /\ UNCHANGED err
             [] OTHER -> Fail("import_weldx", outcome)
    /\ UNCHANGED <<envVars, sys_path, stageVars, parseVars, config>>

\* The except clause, lines 61 and 62: the parent directory is put first
\* on sys.path and weldx is imported again, this time outside any try.
ImportWeldxFallback ==
    /\ pc = "import_weldx_fallback"
    /\ log' = Append(log, "import_weldx")
    /\ sys_path' = <<ParentDir>> \o sys_path
    /\ LET outcome == ImportWeldxFrom(sys_path')
       IN  IF outcome = "ok"
             THEN Goto("import_visualization")
             ELSE Fail("import_weldx_fallback", outcome)
    /\ UNCHANGED <<envVars, type_checking, stageVars, parseVars, config>>

\* Line 65 inside a try whose except clause goes on: a plausible slip.
ImportVisualization_caught ==
    /\ pc = "import_visualization"
    /\ log' = Append(log, "import_visualization")
    /\ pc' = "copy_tut_files"
    /\ config' = config \cup {"tutorials_dir"}
    /\ raised' = IF "weldx.visualization" \in importable THEN raised
                 ELSE Append(raised, [at |-> "import_visualization",
                                      exc |-> "ModuleNotFoundError"])
    /\ UNCHANGED <<err, envVars, importVars, stageVars, parseVars>>

\* import weldx.visualization and tutorials_dir, lines 65 to 68.
ImportVisualization ==
    /\ pc = "import_visualization"
    /\ log' = Append(log, "import_visualization")
    /\ IF "weldx.visualization" \in importable
         THEN /\ Goto("copy_tut_files")
              /\ config' = config \cup {"tutorials_dir"}
         ELSE /\ Fail("import_visualization", "ModuleNotFoundError")
              /\ UNCHANGED config
    /\ UNCHANGED <<envVars, importVars, stageVars, parseVars>>


---------------------------------------------------------------------------
(* The staging of the tutorial files: _copy_tut_files, lines 72 to 83. *)

\* _exts with "*.py*" for "*.py": a plausible slip.
Exts_loose ==
    << <<"*", ".", "i", "p", "y", "n", "b">>, <<"*", ".", "p", "y", "*">> >>

\* _exts, line 75.
Exts == << <<"*", ".", "i", "p", "y", "n", "b">>, <<"*", ".", "p", "y">> >>

\* Whether a file name matches a pattern in which "*" stands for any run
\* of characters, as Path.glob matches the names of a directory.
RECURSIVE FnMatch(_, _)
FnMatch(name, pat) ==
    IF pat = << >> THEN name = << >>
    ELSE IF Head(pat) = "*"
      THEN \/ FnMatch(name, Tail(pat))
           \/ name # << >> /\ FnMatch(Tail(name), pat)
      ELSE /\ name # << >>
           /\ Head(name) = Head(pat)
           /\ FnMatch(Tail(name), Tail(pat))

\* pathlib.Path(dir).glob(pat): the names of dir that match pat.
Glob(dir, pat) == { n \in FileNames : dir[n] # Absent /\ FnMatch(n, pat) }

\* The orders in which a glob may yield the names of S.
Orderings(S) ==
    { o \in [1..Cardinality(S) -> S] :
        \A i, j \in 1..Cardinality(S) : i # j => o[i] # o[j] }

\* A copy that keeps a file already in dir: a plausible slip.
ShutilCopy_keepExisting(src, name, dir) ==
    IF dir[name] # Absent THEN dir ELSE [dir EXCEPT ![name] = src[name]]

\* shutil.copy(f, dir): dir afterwards, the file named name of src copied
\* into it, a file of that name already there being overwritten.
ShutilCopy(src, name, dir) == [dir EXCEPT ![name] = src[name]]

\* The first loop of _copy_tut_files, lines 73 to 78: tutorial_files
\* becomes the matches of "*.ipynb" followed by the matches of "*.py".
CopyTutFilesGlob ==
    /\ pc = "copy_tut_files"
    /\ log' = Append(log, "copy_tut_files")
    /\ runs' = runs + 1
    /\ \E o1 \in Orderings(Glob(src_dir, Exts[1])),
          o2 \in Orderings(Glob(src_dir, Exts[2])) :
         /\ tutorial_files' = o1 \o o2
         /\ Goto(IF o1 \o o2 = << >> THEN "project_info" ELSE "copy_files")
    /\ UNCHANGED <<envVars, importVars, src_dir, dst_dir, dst_prev,
                   parseVars, config>>

\* One turn of the second loop, lines 79 and 80: the next file of the list
\* is copied; an error of the copy is not caught.
CopyTutFile ==
    /\ pc = "copy_files"
    /\ tutorial_files # << >>
    /\ LET f == Head(tutorial_files)
       IN  IF f \in unreadable
             THEN /\ Fail("copy_tut_files", "PermissionError")
                  /\ UNCHANGED <<dst_dir, tutorial_files>>
             ELSE /\ dst_dir' = ShutilCopy(src_dir, f, dst_dir)
                  /\ tutorial_files' = Tail(tutorial_files)
                  /\ Goto(IF Tail(tutorial_files) = << >>
                            THEN "project_info" ELSE "copy_files")
    /\ UNCHANGED <<log, envVars, importVars, src_dir, runs, dst_prev,
                   parseVars, config>>

\* A later build runs the staging again on the directories as they are.
Restage ==
    /\ pc = "project_info"
    /\ runs < MaxRuns
    /\ dst_prev' = dst_dir
    /\ Goto("copy_tut_files")
    /\ UNCHANGED <<log, envVars, importVars, src_dir, dst_dir,
                   tutorial_files, runs, parseVars, config>>

---------------------------------------------------------------------------
(* The configuration values: lines 87 to 298. *)

\* The names assigned by lines 87 to 257.
ConfigNames ==
    {"project", "copyright", "author", "release", "pygments_style",
     "extensions", "extlinks", "autosummary_generate", "autoclass_content",
     "numpydoc", "napoleon", "typehints", "source_suffix", "master_doc",
     "nbsphinx", "templates_path", "exclude_patterns", "html"}

\* Lines 87 to 257: plain assignments.
PopulateConfig ==
    /\ pc = "project_info"
    /\ log' = Append(log, "config")
    /\ config' = config \cup ConfigNames
    /\ Goto("intersphinx_mapping")
    /\ UNCHANGED <<envVars, importVars, stageVars, parseVars>>

\* intersphinx_mapping = _get_intersphinx_mapping(), lines 265 to 298: the
\* versions of asdf, matplotlib, numpy, pandas, pint and scipy are imported.
GetIntersphinxMapping ==
    /\ pc = "intersphinx_mapping"
    /\ log' = Append(log, "intersphinx_mapping")
    /\ IF "version_deps" \in importable
         THEN /\ config' = config \cup {"intersphinx_mapping"}
              /\ Goto("nitpick_ignore")
         ELSE /\ Fail("intersphinx_mapping", "ModuleNotFoundError")
              /\ UNCHANGED config
    /\ UNCHANGED <<envVars, importVars, stageVars, parseVars>>

---------------------------------------------------------------------------
(* The parse of the ignore list: lines 305 to 313. *)

\* Line 308 without the test for a comment: a plausible slip.
IsSkipped_blankOnly(line) == Strip(line) = << >>

\* The condition of line 308: the line is skipped.
IsSkipped(line) == Strip(line) = << >> \/ StartsWith(line, <<HASH>>)

\* Line 311 without the strip: a plausible slip.
MakePair_unstripped(fields) == << fields[1], fields[2] >>

\* Lines 310 and 311 on a line whose split has two fields: the pair.
MakePair(fields) == << fields[1], Strip(fields[2]) >>

\* Whether the unpacking of line 310 succeeds on the fields of a split.
Unpacks(fields) == Len(fields) = 2

\* The handle after an exception had the file been opened in a with
\* statement.
HandleAfterError_closed(h) == "closed"

\* What the handle is after an exception has left the loop: nothing
\* closes it.
HandleAfterError(h) == h

\* nitpick_ignore = [] and the open of line 307.
OpenIgnoreFile ==
    /\ pc = "nitpick_ignore"
    /\ log' = Append(log, "nitpick_ignore")
    /\ nitpick_ignore' = << >>
    /\ config' = config \cup {"nitpick_ignore"}
    /\ IF file_exists
         THEN /\ fh' = "open"
              /\ lines' = ReadLines(file)
              /\ pos' = 0
              /\ Goto("parse")
         ELSE /\ Fail("nitpick_ignore", "FileNotFoundError")
              /\ UNCHANGED <<fh, lines, pos>>
    /\ UNCHANGED <<envVars, importVars, stageVars>>

\* One turn of the loop, lines 307 to 312, on the next line of the file.
ParseLine ==
    /\ pc = "parse"
    /\ pos < Len(lines)
    /\ pos' = pos + 1
    /\ LET line == lines[pos + 1]
           fields == Split1(line)
       IN  IF IsSkipped(line)
             THEN /\ Goto("parse")
                  /\ UNCHANGED <<fh, nitpick_ignore>>
             ELSE IF Unpacks(fields)
               THEN /\ nitpick_ignore' =
                         Append(nitpick_ignore, MakePair(fields))
                    /\ Goto("parse")
                    /\ UNCHANGED fh
               ELSE /\ Fail("parse", "ValueError")
                    /\ fh' = HandleAfterError(fh)
                    /\ UNCHANGED nitpick_ignore
    /\ UNCHANGED <<log, envVars, importVars, stageVars, lines, config>>

\* The end of the iteration and fh.close(), line 313.
CloseIgnoreFile ==
    /\ pc = "parse"
    /\ pos = Len(lines)
    /\ fh' = "closed"
    /\ Goto("default_role")
    /\ UNCHANGED <<log, envVars, importVars, stageVars, lines, pos,
                   nitpick_ignore, config>>

\* default_role = "py:obj", line 319.
SetDefaultRole ==
    /\ pc = "default_role"
    /\ log' = Append(log, "default_role")
    /\ config' = config \cup {"default_role"}
    /\ Goto("done")
    /\ UNCHANGED <<envVars, importVars, stageVars, parseVars>>

---------------------------------------------------------------------------
(* The specifications. *)

\* What no input decides.
InitCommon ==
    /\ err = "none"
    /\ raised = << >>
    /\ log = << >>
    /\ sys_path = <<SitePackages>>
    /\ type_checking = FALSE
    /\ tutorial_files = << >>
    /\ runs = 0
    /\ src0 = src_dir
    /\ dst0 = dst_dir
    /\ dst_prev = dst_dir
    /\ config = {}
    /\ fh = "none"
    /\ lines = << >>
    /\ pos = 0
    /\ nitpick_ignore = << >>

\* The directories of the example: a.ipynb, b.py and c.txt in the source.
ExampleSrc ==
    [n \in FileNames |->
        IF n = Name_d_pyc THEN Absent
        ELSE IF n = Name_b_py THEN "v2" ELSE "v1"]
EmptyDst == [n \in FileNames |-> Absent]

\* The whole load, from the first statement, in each environment.
InitLoad ==
    /\ pc = "prevent_circular_imports"
    /\ importable \in SUBSET Packages
    /\ weldx_at \in [Locations -> WeldxStates]
    /\ src_dir = ExampleSrc
    /\ dst_dir \in {EmptyDst, [EmptyDst EXCEPT ![Name_a_ipynb] = OldContent]}
    /\ unreadable \in {{}, {Name_b_py}}
    /\ file_exists \in BOOLEAN
    /\ file \in (IF file_exists THEN LoadFiles ELSE { << >> })
    /\ InitCommon

NextLoad ==
    \/ PreventSphinxCircularImportsBug
    \/ WorkaroundImportsTypechecking
    \/ ImportWeldx
    \/ ImportWeldxFallback
    \/ ImportVisualization
    \/ CopyTutFilesGlob
    \/ CopyTutFile
    \/ PopulateConfig
    \/ GetIntersphinxMapping
    \/ OpenIgnoreFile
    \/ ParseLine
    \/ CloseIgnoreFile
    \/ SetDefaultRole

SpecLoad == InitLoad /\ [][NextLoad]_vars

\* The staging alone, on every pair of directories, run MaxRuns times.
InitStage ==
    /\ pc = "copy_tut_files"
    /\ importable = Packages
    /\ weldx_at = [l \in Locations |-> "ok"]
    /\ src_dir \in SrcDirs
    /\ dst_dir \in DstDirs
    /\ unreadable \in {{}} \cup { {n} : n \in FileNames }
    /\ file_exists = TRUE
    /\ file = << >>
    /\ InitCommon

NextStage ==
    \/ CopyTutFilesGlob
    \/ CopyTutFile
    \/ Restage

SpecStage == InitStage /\ [][NextStage]_vars

\* The parse alone, on every text of at most MaxFileLen characters.
InitParse ==
    /\ pc = "nitpick_ignore"
    /\ importable = Packages
    /\ weldx_at = [l \in Locations |-> "ok"]
    /\ src_dir = ExampleSrc
    /\ dst_dir = EmptyDst
    /\ unreadable = {}
    /\ file_exists \in BOOLEAN
    /\ file \in (IF file_exists THEN TextsUpTo(MaxFileLen) ELSE { << >> })
    /\ InitCommon

NextParse ==
    \/ OpenIgnoreFile
    \/ ParseLine
    \/ CloseIgnoreFile

SpecParse == InitParse /\ [][NextParse]_vars


---------------------------------------------------------------------------
(* What the properties speak of, stated on the text of a line and not    *)
(* through the string methods above.                                     *)

\* A line of whitespace only.
IsBlankLine(l) == \A i \in 1..Len(l) : l[i] \in {SP, NL, "\t"}

\* A line starting with "#".
IsCommentLine(l) == l # << >> /\ l[1] = HASH

\* A line that is neither: a rule.
IsRuleLine(l) == ~IsBlankLine(l) /\ ~IsCommentLine(l)

\* A line with a separator: two characters that are no whitespace with
\* whitespace between them.
HasSeparator(l) ==
    \E i, j, k \in 1..Len(l) :
        /\ i < j /\ j < k
        /\ l[i] \notin {SP, NL, "\t"}
        /\ l[j] \in {SP, NL, "\t"}
        /\ l[k] \notin {SP, NL, "\t"}

\* A line of three tokens or more.
HasThreeTokens(l) ==
    \E j \in 1..Len(l) :
        /\ l[j] \in {SP, NL, "\t"}
        /\ HasSeparator(SubSeq(l, 1, j - 1))
        /\ ~IsBlankLine(Drop(l, j + 1))

\* s without any of its whitespace.
RECURSIVE Squeeze(_)
Squeeze(s) ==
    IF s = << >> THEN << >>
    ELSE IF Head(s) \in {SP, NL, "\t"} THEN Squeeze(Tail(s))
    ELSE <<Head(s)>> \o Squeeze(Tail(s))

\* A field with no whitespace at either end.
Trimmed(s) ==
    s # << >> => s[1] \notin {SP, NL, "\t"} /\ s[Len(s)] \notin {SP, NL, "\t"}

\* The lines the loop has taken so far, and the rules among them.
Taken == SubSeq(lines, 1, pos)
RulesTaken == SelectSeq(Taken, IsRuleLine)

\* The parse is under way or over.
InParse == pc \in {"parse", "default_role", "done"} \/ (pc = "failed" /\ fh = "open")

\* The loop has ended without an error.
ParseEnded == pc \in {"default_role", "done"}

\* The line is: whitespace, d, whitespace, t, whitespace, where d holds no
\* whitespace, the whitespace between d and t is not empty, and t neither
\* starts nor ends with whitespace.
SplitsInto(l, d, t) ==
    \E b, r \in 1..Len(l) :
        /\ IsBlankLine(SubSeq(l, 1, b - 1))
        /\ d # << >>
        /\ Squeeze(d) = d
        /\ SubSeq(l, b, b + Len(d) - 1) = d
        /\ b + Len(d) < r
        /\ IsBlankLine(SubSeq(l, b + Len(d), r - 1))
        /\ t # << >>
        /\ Trimmed(t)
        /\ SubSeq(l, r, r + Len(t) - 1) = t
        /\ IsBlankLine(Drop(l, r + Len(t)))

---------------------------------------------------------------------------
(* The ignore list: C1, C2, C3, C9, C10, under SpecParse. *)

\* C1: when every line of the file that is neither blank nor a comment (a
\* line starting with "#") is well-formed, the loop ends without an error
\* and nitpick_ignore then holds one pair for each such line, in the order
\* of the file, the i-th pair made of the characters of the i-th such line,
\* and neither field of a pair starts or ends with whitespace.
C1_OnePairPerRuleInOrder ==
    LET rules == SelectSeq(lines, IsRuleLine)
    IN  (InParse /\ \A i \in 1..Len(rules) : HasSeparator(rules[i])) =>
          /\ pc # "failed"
          /\ ParseEnded =>
               /\ Len(nitpick_ignore) = Len(rules)
               /\ \A i \in 1..Len(rules) :
                    /\ Len(nitpick_ignore[i]) = 2
                    /\ Squeeze(nitpick_ignore[i][1] \o nitpick_ignore[i][2])
                         = Squeeze(rules[i])
                    /\ nitpick_ignore[i][1] # << >>
                    /\ nitpick_ignore[i][2] # << >>
                    /\ Trimmed(nitpick_ignore[i][1])
                    /\ Trimmed(nitpick_ignore[i][2])

\* Two different rules with a blank line around them have been parsed.
C1_Witness ==
    /\ ParseEnded
    /\ Len(lines) = 3
    /\ Len(nitpick_ignore) = 2
    /\ nitpick_ignore[1] = << <<"a">>, <<HASH>> >>
    /\ nitpick_ignore[2] = << <<"a">>, <<"a">> >>

\* C2: a turn of the loop on a blank line or on a line starting with "#"
\* leaves nitpick_ignore as it is and goes on with the next line, wherever
\* in the file the line stands.
C2_SkippedLinesChangeNothing ==
    [][ (pc = "parse" /\ pos < Len(lines)
           /\ (IsBlankLine(lines[pos + 1]) \/ IsCommentLine(lines[pos + 1])))
        => (nitpick_ignore' = nitpick_ignore /\ pc' = "parse") ]_vars

\* A comment first, a rule, a blank line last: one pair.
C2_Witness ==
    /\ ParseEnded
    /\ Len(lines) = 3
    /\ IsCommentLine(lines[1]) /\ Len(lines[1]) > 2
    /\ IsBlankLine(lines[3])
    /\ Len(nitpick_ignore) = 1

\* C3: a line that is neither blank nor a comment and has no separator (one
\* token, with or without whitespace after it) ends the parse with a
\* ValueError at that line, and no pair of nitpick_ignore ever has a
\* missing or an empty field.
C3_SingleTokenFails ==
    /\ \A i \in 1..Len(nitpick_ignore) :
         /\ Len(nitpick_ignore[i]) = 2
         /\ nitpick_ignore[i][1] # << >>
         /\ nitpick_ignore[i][2] # << >>
    /\ \A i \in 1..pos :
         (IsRuleLine(lines[i]) /\ ~HasSeparator(lines[i])) =>
            /\ pc = "failed"
            /\ err = "ValueError"
            /\ i = pos
            /\ Len(nitpick_ignore) = Len(RulesTaken) - 1

\* A rule has been parsed and the next line, a token followed by a space,
\* has ended the parse.
C3_Witness ==
    /\ pc = "failed"
    /\ pos = 2
    /\ lines[2] = <<"a", SP, NL>>
    /\ Len(nitpick_ignore) = 1

\* C9: every pair comes from its line by a split at the first run of
\* whitespace: the line is whitespace, the category, whitespace, the
\* target, whitespace, where the category holds no whitespace and the
\* target, which may hold whitespace, neither starts nor ends with it; and
\* a line with a separator, be it of three tokens or more, never fails.
C9_SplitOnFirstWhitespace ==
    /\ \A i \in 1..Len(nitpick_ignore) :
         SplitsInto(RulesTaken[i], nitpick_ignore[i][1], nitpick_ignore[i][2])
    /\ \A i \in 1..pos :
         (IsRuleLine(lines[i]) /\ HasSeparator(lines[i])) =>
            ~(pc = "failed" /\ i = pos)

\* A line of three tokens has given one pair whose target keeps the two
\* spaces between its tokens.
C9_Witness ==
    /\ pc = "parse"
    /\ pos = 1
    /\ HasThreeTokens(lines[1])
    /\ nitpick_ignore = << << <<"a">>, <<"a", SP, SP, "a">> >> >>

\* C10: no pair of nitpick_ignore has a category that starts with "#".
C10_NoHashCategory ==
    \A i \in 1..Len(nitpick_ignore) :
        ~StartsWith(nitpick_ignore[i][1], <<HASH>>)

---------------------------------------------------------------------------
(* The staging of the tutorial files: C4 and C5, under SpecStage. *)

\* The name ends with the suffix.
EndsWith(name, suffix) ==
    /\ Len(name) >= Len(suffix)
    /\ \A i \in 1..Len(suffix) :
         name[Len(name) - Len(suffix) + i] = suffix[i]

\* A name matching "*.ipynb" or "*.py".
IsTutorialName(n) ==
    \/ EndsWith(n, <<".", "i", "p", "y", "n", "b">>)
    \/ EndsWith(n, <<".", "p", "y">>)

\* A staging has ended without an error.
Staged == pc = "project_info"

\* C4: the staging changes nothing in the source directory, never creates
\* or changes in the destination a file whose name matches neither
\* "*.ipynb" nor "*.py", and when it has ended the destination holds a
\* copy of every file of the source whose name matches one of them.
C4_CopiesExactlyTheMatches ==
    /\ src_dir = src0
    /\ \A n \in FileNames :
         (~IsTutorialName(n) \/ src0[n] = Absent) => dst_dir[n] = dst0[n]
    /\ \A n \in FileNames :
         dst_dir[n] \in {dst0[n], src0[n]}
    /\ Staged =>
         \A n \in FileNames :
            (IsTutorialName(n) /\ src0[n] # Absent) => dst_dir[n] = src0[n]

\* The example: a.ipynb, b.py and c.txt staged into an empty directory.
C4_Witness ==
    /\ Staged
    /\ src0 = ExampleSrc
    /\ dst0 = EmptyDst
    /\ dst_dir[Name_a_ipynb] = "v1"
    /\ dst_dir[Name_b_py] = "v2"
    /\ dst_dir[Name_c_txt] = Absent
    /\ src_dir[Name_c_txt] = "v1"

\* C5: a file of the destination with the name of a matching source file
\* is overwritten with the content of the source and is no cause of an
\* error (the staging fails only on a source file that cannot be read),
\* and a second staging of an unchanged source leaves the destination as
\* the first left it.
C5_OverwritesAndIsIdempotent ==
    /\ pc = "failed" =>
         /\ tutorial_files # << >>
         /\ Head(tutorial_files) \in unreadable
    /\ (pc = "copy_files" /\ runs = 1) =>
         \A n \in FileNames :
            (dst0[n] # Absent /\ IsTutorialName(n) /\ src_dir[n] # Absent) =>
               \/ dst_dir[n] = src_dir[n]
               \/ \E i \in 1..Len(tutorial_files) : tutorial_files[i] = n
    /\ Staged =>
         \A n \in FileNames :
            (dst0[n] # Absent /\ IsTutorialName(n) /\ src_dir[n] # Absent) =>
               dst_dir[n] = src_dir[n]
    /\ (Staged /\ runs >= 2) => dst_dir = dst_prev

\* b.py was in the destination with an old content; the staging has run
\* twice.
C5_Witness ==
    /\ Staged
    /\ runs = 2
    /\ dst0[Name_b_py] = OldContent
    /\ src_dir[Name_b_py] = "v2"
    /\ dst_dir[Name_b_py] = "v2"

---------------------------------------------------------------------------
(* The whole load: C6, C7 and C8, under SpecLoad. *)

\* The exception caught by the except clause of line 60.
CaughtImport == [at |-> "import_weldx", exc |-> "ModuleNotFoundError"]

\* How many times the step s was started.
Starts(s) == Cardinality({ i \in 1..Len(log) : log[i] = s })

\* Whenever the step y has started, the step x had started before it.
Precedes(x, y) ==
    \A j \in 1..Len(log) :
        log[j] = y => \E i \in 1..(j - 1) : log[i] = x

\* The order of the steps the load is said to keep.
StepsInOrder ==
    /\ Precedes("prevent_circular_imports", "workaround_imports")
    /\ Precedes("workaround_imports", "import_weldx")
    /\ Precedes("import_weldx", "copy_tut_files")
    /\ Precedes("copy_tut_files", "config")
    /\ Precedes("config", "intersphinx_mapping")
    /\ Precedes("intersphinx_mapping", "nitpick_ignore")

\* C6 as stated: once an exception has been raised the load has failed;
\* none is caught.
C6_Original == raised # << >> => pc = "failed"

\* C6, amended: every exception but one ends the load at the statement
\* that raised it and the load never completes after it; the one exception
\* is a ModuleNotFoundError of the first import of weldx, which is caught
\* and followed by one more import of weldx with the parent directory put
\* first on sys.path, whose own failure ends the load.
C6_FailFastButWeldxFallback ==
    /\ pc = "failed" <=> err # "none"
    /\ Len(raised) <= 2
    /\ raised # << >> =>
         \/ /\ pc = "failed"
            /\ raised[Len(raised)].exc = err
            /\ raised[Len(raised)].at # "import_weldx" \/ err # "ModuleNotFoundError"
            /\ Len(raised) = 2 => raised[1] = CaughtImport
         \/ /\ pc # "failed"
            /\ raised = << CaughtImport >>
            /\ pc # "import_weldx_fallback" => sys_path = <<ParentDir, SitePackages>>
    /\ raised = << >> => sys_path = <<SitePackages>>

\* The load has completed after the caught failure of the first import.
C6_Witness ==
    /\ pc = "done"
    /\ raised = << CaughtImport >>
    /\ config # {}

\* C7 as stated: the steps start in the order given, the ignore list is
\* the last of them, and none starts twice.
C7_Original ==
    /\ StepsInOrder
    /\ \A i \in 1..Len(log) : log[i] = "nitpick_ignore" => i = Len(log)
    /\ \A i, j \in 1..Len(log) : i # j => log[i] # log[j]

\* C7, amended: the steps start in the order given; the import of weldx is
\* started a second time after a ModuleNotFoundError of the first and no
\* other step is started twice; the parse of the ignore list is followed
\* by one statement only, the assignment of default_role.
C7_LinearButForFallbackAndDefaultRole ==
    /\ StepsInOrder
    /\ Precedes("import_weldx", "import_visualization")
    /\ Precedes("import_visualization", "copy_tut_files")
    /\ Precedes("nitpick_ignore", "default_role")
    /\ \A i \in 1..Len(log) : log[i] # "import_weldx" => Starts(log[i]) = 1
    /\ Starts("import_weldx") <= 2
    /\ Starts("import_weldx") = 2 =>
         /\ raised # << >>
         /\ raised[1] = CaughtImport
    /\ \A i, j \in 1..Len(log) :
         (log[i] = "nitpick_ignore" /\ i < j) => log[j] = "default_role"
    /\ pc = "done" =>
         /\ log[Len(log)] = "default_role"
         /\ log[Len(log) - 1] = "nitpick_ignore"

\* The load has completed on the path with every step in it.
C7_Witness ==
    /\ pc = "done"
    /\ Starts("import_weldx") = 2
    /\ Len(log) = 10
    /\ Len(nitpick_ignore) = 1

\* C8: the handle is open from the open of the file on, it is closed when
\* the loop has ended without an error and only then, and after an error
\* inside the loop it is still open; a load that fails before the file is
\* open holds no handle.
C8_HandleClosedOnlyOnSuccess ==
    /\ fh = "closed" <=> pc \in {"default_role", "done"}
    /\ pc = "parse" => fh = "open"
    /\ pc = "failed" =>
         fh = (IF raised[Len(raised)].at = "parse" THEN "open" ELSE "none")
    /\ pc \notin {"parse", "default_role", "done", "failed"} => fh = "none"

\* A malformed second line has ended the load with the handle open.
C8_Witness ==
    /\ pc = "failed"
    /\ err = "ValueError"
    /\ pos = 2
    /\ fh = "open"

=============================================================================
